---- MODULE Spec2Model ----
(***************************************************************************)
(* Concurrent A* engine of pdrpinto/astar: the priority frontier           *)
(* (PriorityQueue driven by container/heap), the run-to-completion         *)
(* orchestrator (Search), the incremental orchestrator (Stepper) and the   *)
(* worker pool they talk to over two unbuffered channels.                  *)
(*                                                                         *)
(* float64 scores are modelled as naturals; edge costs and heuristic       *)
(* values are small integers, so no rounding is involved.                  *)
(***************************************************************************)
EXTENDS Integers, Sequences, FiniteSets, Bags, TLC

(***************************************************************************)
(* Bounds                                                                  *)
(***************************************************************************)
\* largest worker-pool size passed to WithWorkers
MaxWorkers == 3

\* the zero value of NodeType (nodes are the integers 1..n, Go's zero is 0)
ZeroNode == 0

(***************************************************************************)
(* Inputs: graphs (Neighbors as an ordered list per node), start, goal and *)
(* the heuristic towards the goal.                                         *)
(***************************************************************************)
Nb(id, cost) == [ID |-> id, Cost |-> cost]

\* 1 -> 2 -> 3, every node has at most one neighbour
ChainGraph == <<  <<Nb(2, 1)>>, <<Nb(3, 2)>>, <<>>  >>

\* two equal-cost routes and a direct, more expensive edge to the goal 4
DiamondGraph == <<  <<Nb(2, 1), Nb(3, 1), Nb(4, 3)>>,
                    <<Nb(4, 1), Nb(1, 1)>>,
                    <<Nb(4, 1)>>,
                    <<>>  >>

\* the goal 4 has no incoming edge; 1, 2, 3 form a cycle with a self loop
IslandGraph == <<  <<Nb(2, 1), Nb(3, 2)>>,
                   <<Nb(3, 0), Nb(2, 1)>>,
                   <<Nb(1, 1)>>,
                   <<Nb(1, 1)>>  >>

\* the cheap route 1 -> 5 -> 6 -> 7 competes with 1 -> 3 -> 7
WideGraph == <<  <<Nb(5, 1), Nb(3, 1), Nb(4, 3)>>,
                 <<>>,
                 <<Nb(7, 2), Nb(2, 2), Nb(6, 3)>>,
                 <<>>,
                 <<Nb(6, 0)>>,
                 <<Nb(7, 0)>>,
                 <<>>  >>

\* the goal 3 and node 2 are reached at the same cost
TieGraph == <<  <<Nb(2, 1), Nb(3, 1)>>, <<Nb(3, 1)>>, <<>>  >>

\* Neighbors(1) lists node 2 twice, with different costs
MultiGraph == <<  <<Nb(2, 3), Nb(2, 1), Nb(3, 5)>>, <<Nb(3, 1)>>, <<>>  >>

\* the cheapest way to node 3 is through node 2
SkewGraph == <<  <<Nb(2, 1), Nb(3, 3)>>, <<Nb(3, 1)>>, <<Nb(4, 3)>>, <<>>  >>

Zero(n) == [k \in 1..n |-> 0]

Scenario(g, s, t, h) == [graph |-> g, start |-> s, goal |-> t, h |-> h]

Scenarios ==
    { Scenario(ChainGraph, 1, 3, Zero(3)),
      Scenario(ChainGraph, 1, 3, <<3, 2, 0>>),
      Scenario(ChainGraph, 2, 2, Zero(3)),
      Scenario(ChainGraph, 3, 1, Zero(3)),
      Scenario(DiamondGraph, 1, 4, Zero(4)),
      Scenario(DiamondGraph, 1, 4, <<2, 1, 1, 0>>),
      Scenario(IslandGraph, 1, 4, Zero(4)),
      Scenario(TieGraph, 1, 3, Zero(3)),
      Scenario(MultiGraph, 1, 3, Zero(3)),
      Scenario(SkewGraph, 1, 4, Zero(4)),
      Scenario(SkewGraph, 1, 4, <<0, 4, 0, 0>>),
      Scenario(WideGraph, 1, 7, Zero(7)) }

\* the grid of the quick start: 5 x 5 cells, walls at (1,1) and (1,2); the
\* point (x, y) is the node GridWidth * y + x + 1; the out-degree is at most 4
GridWidth == 5
GridHeight == 5
GridWorkers == 4

Cell(x, y) == GridWidth * y + x + 1
XOf(n) == (n - 1) % GridWidth
YOf(n) == (n - 1) \div GridWidth

Walls == {Cell(1, 1), Cell(1, 2)}

Dirs == <<  <<1, 0>>, <<0 - 1, 0>>, <<0, 1>>, <<0, 0 - 1>>  >>

\* grid.in
InGrid(x, y) == x >= 0 /\ x < GridWidth /\ y >= 0 /\ y < GridHeight

\* the out slice after the first k directions
RECURSIVE GridNeighborsUpTo(_, _)
GridNeighborsUpTo(n, k) ==
    IF k = 0 THEN <<>>
    ELSE LET x == XOf(n) + Dirs[k][1]
             y == YOf(n) + Dirs[k][2]
             out == GridNeighborsUpTo(n, k - 1)
         IN  IF InGrid(x, y) /\ Cell(x, y) \notin Walls
             THEN Append(out, Nb(Cell(x, y), 1))
             ELSE out

\* grid.Neighbors
GridGraph == [n \in 1..GridWidth * GridHeight |-> GridNeighborsUpTo(n, Len(Dirs))]

Abs(d) == IF d < 0 THEN 0 - d ELSE d

\* manhattan(a, b)
manhattan(a, b) == Abs(XOf(a) - XOf(b)) + Abs(YOf(a) - YOf(b))

GridScenario ==
    Scenario(GridGraph, Cell(0, 0), Cell(4, 4),
             [n \in 1..GridWidth * GridHeight |-> manhattan(n, Cell(4, 4))])

Nodes(sc) == DOMAIN sc.graph

\* Graph.Neighbors
Neighbors(sc, node) == sc.graph[node]

\* Heuristic(from, goal); the goal is the scenario's
Heuristic(sc, node) == sc.h[node]

(***************************************************************************)
(* PriorityQueue and container/heap.  Indices are Go's (from 0); q[i + 1]  *)
(* is the item at index i.                                                 *)
(***************************************************************************)
\* the struct literal of a new item leaves IndexInQueue at its zero value
NewItem(node, g, f) == [Node |-> node, GScore |-> g, FCost |-> f, IndexInQueue |-> 0]

ZeroItem == NewItem(ZeroNode, 0, 0)

Less(q, i, j) == q[i + 1].FCost < q[j + 1].FCost

Swap(q, i, j) ==
    [q EXCEPT ![i + 1] = [q[j + 1] EXCEPT !.IndexInQueue = i],
              ![j + 1] = [q[i + 1] EXCEPT !.IndexInQueue = j]]

\* PriorityQueue.Push: append only, the item's IndexInQueue is not set
Push(q, x) == Append(q, x)

\* (j - 1) / 2 with Go's truncating division
Parent(j) == IF j = 0 THEN 0 ELSE (j - 1) \div 2

\* the loop of heap.up; each iteration starts from the value of the swapped
\* queue (bound here, so that it is computed once)
RECURSIVE up(_, _)
up(q, j) ==
    LET i == Parent(j)
    IN  IF i = j \/ ~Less(q, j, i) THEN q
        ELSE CHOOSE r \in { up(swapped, parent) :
                                swapped \in {Swap(q, i, j)}, parent \in {i} } : TRUE

\* the loop of heap.down, iterated like the one of up
RECURSIVE downFrom(_, _, _)
downFrom(q, i, n) ==
    LET j1 == 2 * i + 1
        j  == IF j1 + 1 < n /\ Less(q, j1 + 1, j1) THEN j1 + 1 ELSE j1
    IN  IF j1 >= n THEN [q |-> q, i |-> i]
        ELSE IF ~Less(q, j, i) THEN [q |-> q, i |-> i]
        ELSE CHOOSE r \in { downFrom(swapped, child, n) :
                                swapped \in {Swap(q, i, j)}, child \in {j} } : TRUE

\* heap.down: the new queue and whether the item moved
down(q, i0, n) ==
    LET r == downFrom(q, i0, n) IN [q |-> r.q, moved |-> r.i > i0]

heapPush(q, x) == up(Push(q, x), Len(q))

\* heap.Pop over a PriorityQueue.Pop that returns the last item without
\* shortening the slice
heapPop_NoTruncate(q) ==
    LET n  == Len(q) - 1
        q1 == down(Swap(q, 0, n), 0, n).q
    IN  [item |-> q1[n + 1], q |-> q1]

\* heap.Pop: the popped item and the remaining queue
heapPop(q) ==
    LET n  == Len(q) - 1
        q1 == down(Swap(q, 0, n), 0, n).q
    IN  [item |-> q1[n + 1], q |-> SubSeq(q1, 1, n)]

heapFix(q, i) ==
    LET d == down(q, i, Len(q)) IN IF d.moved THEN d.q ELSE up(q, i)


(***************************************************************************)
(* reconstructPath and the Stepper's helper that infers the start node.    *)
(***************************************************************************)
Reverse(s) == [k \in 1..Len(s) |-> s[Len(s) + 1 - k]]

\* the loop of reconstructPath: current, its predecessor, ... (goal first)
RECURSIVE walkBack(_, _, _)
walkBack(came, current, start) ==
    IF current = start \/ current \notin DOMAIN came
    THEN <<current>>
    ELSE <<current>> \o walkBack(came, came[current], start)

\* reconstructPath without its reversing loop
reconstructPath_NoReverse(came, current, start) == walkBack(came, current, start)

reconstructPath(came, current, start) == Reverse(walkBack(came, current, start))

\* following one predecessor link only
inferStart_OneLink(came, current) ==
    IF current \notin DOMAIN came THEN current ELSE came[current]

RECURSIVE inferStartFromCameFrom(_, _)
inferStartFromCameFrom(came, current) ==
    IF current \notin DOMAIN came THEN current
    ELSE inferStartFromCameFrom(came, came[current])

(***************************************************************************)
(* The caller: one or two runs over the same scenario.  A plan is the list *)
(* of calls the caller makes, each with its WithWorkers option.            *)
(***************************************************************************)
Run(kind, w) == [kind |-> kind, workers |-> w]

Plans ==
    { <<Run("Stepper", w)>> : w \in 1..MaxWorkers }
    \cup { <<Run("Search", 1), Run("Search", w)>> : w \in 1..MaxWorkers }
    \cup { <<Run("Search", w), Run("Stepper", w)>> : w \in 1..MaxWorkers }

VARIABLES
    scenario,       \* graph, startNode, goalNode, heuristic of the calls
    plan,           \* the calls the caller makes
    run,            \* index in plan of the call in progress
    prev,           \* Result and error of the previous Search call
    pc,             \* position of the orchestrator
    openSet,        \* the heap array
    openSetMap,     \* keys of the side index (each maps to its heap item)
    closedSet,
    cameFrom,
    gScore,         \* pathCostFromStart in Search, gScore in Stepper
    expandedNodes,  \* Search's counter
    stepCount,      \* Stepper's counter
    done, found,    \* Stepper's flags
    currentItem,    \* the item popped in this iteration
    neighbors,      \* Neighbors(current) of this iteration
    i,              \* loop index of the dispatch loop, then of the collect loop
    result,         \* Result returned by Search
    snap,           \* StepSnapshot returned by the last Step call
    err,            \* error returned by the last call
    ctxDone,        \* the context of the run is canceled
    idle,           \* workers blocked in their select
    exited,         \* workers that returned
    sending         \* proposals whose worker is blocked on the proposal channel

vars == <<scenario, plan, run, prev, pc, openSet, openSetMap, closedSet,
          cameFrom, gScore, expandedNodes, stepCount, done, found,
          currentItem, neighbors, i, result, snap, err, ctxDone, idle,
          exited, sending>>

kind == plan[run].kind
NumberOfWorkers == plan[run].workers
startNode == scenario.start
goalNode == scenario.goal

ZeroResult == [Path |-> <<>>, TotalCost |-> 0, ExpandedNodes |-> 0, Found |-> FALSE]

\* a nil map and a nil slice read as the empty map and the empty slice
ZeroSnapshot ==
    [Current |-> ZeroNode, Open |-> {}, Closed |-> {}, CameFrom |-> <<>>,
     Done |-> FALSE, Found |-> FALSE, Path |-> <<>>, StepIndex |-> 0]

\* state built by Search before its loop and by NewStepper
Construct(k) ==
    [pc |-> IF plan[k].kind = "Search" THEN "loop" ELSE "ready",
     openSet |-> heapPush(<<>>, NewItem(startNode, 0, Heuristic(scenario, startNode))),
     openSetMap |-> {startNode},
     closedSet |-> {},
     cameFrom |-> <<>>,
     gScore |-> (startNode :> 0),
     idle |-> plan[k].workers]

\* the first call of the plan, just constructed
FirstCall ==
    /\ run = 1
    /\ prev = [result |-> ZeroResult, err |-> "nil"]
    /\ pc = Construct(1).pc
    /\ openSet = Construct(1).openSet
    /\ openSetMap = Construct(1).openSetMap
    /\ closedSet = Construct(1).closedSet
    /\ cameFrom = Construct(1).cameFrom
    /\ gScore = Construct(1).gScore
    /\ expandedNodes = 0
    /\ stepCount = 0
    /\ done = FALSE
    /\ found = FALSE
    /\ currentItem = ZeroItem
    /\ neighbors = <<>>
    /\ i = 0
    /\ result = ZeroResult
    /\ snap = ZeroSnapshot
    /\ err = "nil"
    /\ ctxDone = FALSE
    /\ idle = Construct(1).idle
    /\ exited = 0
    /\ sending = EmptyBag

Init ==
    /\ scenario \in Scenarios
    /\ plan \in Plans
    /\ FirstCall

\* main of the quick start: one Search call over the grid, 4 workers
GridInit ==
    /\ scenario = GridScenario
    /\ plan = <<Run("Search", GridWorkers)>>
    /\ FirstCall

(***************************************************************************)
(* Worker pool.  The workers are anonymous and identical, so the pool is   *)
(* the number of workers at each position plus the proposals being sent.   *)
(***************************************************************************)
\* a worker that leaves the edge cost out of tentativeG
Proposal_NoCost(task) ==
    LET tentativeG == task.CurrentGScore
        f == tentativeG + Heuristic(scenario, task.Neighbor.ID)
    IN  [FromNode |-> task.FromNode, ToNode |-> task.Neighbor.ID,
         GScore |-> tentativeG, FCost |-> f]

\* body of a worker between receiving a task and sending its proposal
Proposal(task) ==
    LET tentativeG == task.CurrentGScore + task.Neighbor.Cost
        f == tentativeG + Heuristic(scenario, task.Neighbor.ID)
    IN  [FromNode |-> task.FromNode, ToNode |-> task.Neighbor.ID,
         GScore |-> tentativeG, FCost |-> f]

ExpandTask(nb) ==
    [FromNode |-> currentItem.Node, Neighbor |-> nb, CurrentGScore |-> currentItem.GScore]

\* a worker's select takes the Done case
WorkerExit ==
    /\ ctxDone
    /\ idle > 0
    /\ idle' = idle - 1
    /\ exited' = exited + 1
    /\ UNCHANGED <<scenario, plan, run, prev, pc, openSet, openSetMap,
                   closedSet, cameFrom, gScore, expandedNodes, stepCount,
                   done, found, currentItem, neighbors, i, result, snap,
                   err, ctxDone, sending>>

\* the caller cancels the context of the run (Stepper.Close does the same)
Cancel ==
    /\ ~ctxDone
    /\ ctxDone' = TRUE
    /\ UNCHANGED <<scenario, plan, run, prev, pc, openSet, openSetMap,
                   closedSet, cameFrom, gScore, expandedNodes, stepCount,
                   done, found, currentItem, neighbors, i, result, snap,
                   err, idle, exited, sending>>

\* expandTaskChannel <- task meets a worker's receive; the worker computes
\* its proposal and blocks sending it
SendTask ==
    /\ idle > 0
    /\ idle' = idle - 1
    /\ sending' = sending (+) SetToBag({Proposal(ExpandTask(neighbors[i + 1]))})
    /\ i' = IF i + 1 = Len(neighbors) THEN 0 ELSE i + 1
    /\ pc' = IF i + 1 = Len(neighbors) THEN "collect" ELSE "dispatch"
    /\ UNCHANGED exited

(***************************************************************************)
(* Relaxation of one received proposal (the receive case of the collect    *)
(* loop), the same code in Search and in Step.                             *)
(***************************************************************************)
\* position in the heap array of the item openSetMap[node] points to
PositionOf(q, node) == CHOOSE k \in 1..Len(q) : q[k].Node = node

\* the relaxation pushing a new item without looking the node up in openSetMap
Relax_AlwaysPush(proposal) ==
    IF proposal.ToNode \in closedSet
    THEN UNCHANGED <<gScore, cameFrom, openSet, openSetMap>>
    ELSE IF proposal.ToNode \notin DOMAIN gScore \/ proposal.GScore < gScore[proposal.ToNode]
    THEN /\ gScore' = (proposal.ToNode :> proposal.GScore) @@ gScore
         /\ cameFrom' = (proposal.ToNode :> proposal.FromNode) @@ cameFrom
         /\ openSet' = heapPush(openSet,
                NewItem(proposal.ToNode, proposal.GScore, proposal.FCost))
         /\ openSetMap' = openSetMap \cup {proposal.ToNode}
    ELSE UNCHANGED <<gScore, cameFrom, openSet, openSetMap>>

\* the relaxation without the test that discards a proposal for a closed node
Relax_NoClosedCheck(proposal) ==
    IF proposal.ToNode \notin DOMAIN gScore \/ proposal.GScore < gScore[proposal.ToNode]
    THEN /\ gScore' = (proposal.ToNode :> proposal.GScore) @@ gScore
         /\ cameFrom' = (proposal.ToNode :> proposal.FromNode) @@ cameFrom
         /\ IF proposal.ToNode \notin openSetMap
            THEN /\ openSet' = heapPush(openSet,
                        NewItem(proposal.ToNode, proposal.GScore, proposal.FCost))
                 /\ openSetMap' = openSetMap \cup {proposal.ToNode}
            ELSE LET k == PositionOf(openSet, proposal.ToNode)
                     item == openSet[k]
                 IN  /\ openSet' =
                            IF proposal.FCost < item.FCost
                            THEN heapFix([openSet EXCEPT ![k].GScore = proposal.GScore,
                                                         ![k].FCost = proposal.FCost],
                                         item.IndexInQueue)
                            ELSE openSet
                     /\ openSetMap' = openSetMap
    ELSE UNCHANGED <<gScore, cameFrom, openSet, openSetMap>>

\* the relaxation recording a predecessor only for a node that has none
Relax_KeepPredecessor(proposal) ==
    IF proposal.ToNode \in closedSet
    THEN UNCHANGED <<gScore, cameFrom, openSet, openSetMap>>
    ELSE IF proposal.ToNode \notin DOMAIN gScore \/ proposal.GScore < gScore[proposal.ToNode]
    THEN /\ gScore' = (proposal.ToNode :> proposal.GScore) @@ gScore
         /\ cameFrom' = cameFrom @@ (proposal.ToNode :> proposal.FromNode)
         /\ IF proposal.ToNode \notin openSetMap
            THEN /\ openSet' = heapPush(openSet,
                        NewItem(proposal.ToNode, proposal.GScore, proposal.FCost))
                 /\ openSetMap' = openSetMap \cup {proposal.ToNode}
            ELSE LET k == PositionOf(openSet, proposal.ToNode)
                     item == openSet[k]
                 IN  /\ openSet' =
                            IF proposal.FCost < item.FCost
                            THEN heapFix([openSet EXCEPT ![k].GScore = proposal.GScore,
                                                         ![k].FCost = proposal.FCost],
                                         item.IndexInQueue)
                            ELSE openSet
                     /\ openSetMap' = openSetMap
    ELSE UNCHANGED <<gScore, cameFrom, openSet, openSetMap>>

\* the relaxation accepting a proposal that equals the stored g-score
Relax_NotStrict(proposal) ==
    IF proposal.ToNode \in closedSet
    THEN UNCHANGED <<gScore, cameFrom, openSet, openSetMap>>
    ELSE IF proposal.ToNode \notin DOMAIN gScore \/ proposal.GScore <= gScore[proposal.ToNode]
    THEN /\ gScore' = (proposal.ToNode :> proposal.GScore) @@ gScore
         /\ cameFrom' = (proposal.ToNode :> proposal.FromNode) @@ cameFrom
         /\ IF proposal.ToNode \notin openSetMap
            THEN /\ openSet' = heapPush(openSet,
                        NewItem(proposal.ToNode, proposal.GScore, proposal.FCost))
                 /\ openSetMap' = openSetMap \cup {proposal.ToNode}
            ELSE LET k == PositionOf(openSet, proposal.ToNode)
                     item == openSet[k]
                 IN  /\ openSet' =
                            IF proposal.FCost < item.FCost
                            THEN heapFix([openSet EXCEPT ![k].GScore = proposal.GScore,
                                                         ![k].FCost = proposal.FCost],
                                         item.IndexInQueue)
                            ELSE openSet
                     /\ openSetMap' = openSetMap
    ELSE UNCHANGED <<gScore, cameFrom, openSet, openSetMap>>

\* the relaxation tightening the f-score of an item but not its g-score
Relax_KeepItemGScore(proposal) ==
    IF proposal.ToNode \in closedSet
    THEN UNCHANGED <<gScore, cameFrom, openSet, openSetMap>>
    ELSE IF proposal.ToNode \notin DOMAIN gScore \/ proposal.GScore < gScore[proposal.ToNode]
    THEN /\ gScore' = (proposal.ToNode :> proposal.GScore) @@ gScore
         /\ cameFrom' = (proposal.ToNode :> proposal.FromNode) @@ cameFrom
         /\ IF proposal.ToNode \notin openSetMap
            THEN /\ openSet' = heapPush(openSet,
                        NewItem(proposal.ToNode, proposal.GScore, proposal.FCost))
                 /\ openSetMap' = openSetMap \cup {proposal.ToNode}
            ELSE LET k == PositionOf(openSet, proposal.ToNode)
                     item == openSet[k]
                 IN  /\ openSet' =
                            IF proposal.FCost < item.FCost
                            THEN heapFix([openSet EXCEPT ![k].FCost = proposal.FCost],
                                         item.IndexInQueue)
                            ELSE openSet
                     /\ openSetMap' = openSetMap
    ELSE UNCHANGED <<gScore, cameFrom, openSet, openSetMap>>

\* the receive case of the collect select
Relax(proposal) ==
    IF proposal.ToNode \in closedSet
    THEN UNCHANGED <<gScore, cameFrom, openSet, openSetMap>>
    ELSE IF proposal.ToNode \notin DOMAIN gScore \/ proposal.GScore < gScore[proposal.ToNode]
    THEN /\ gScore' = (proposal.ToNode :> proposal.GScore) @@ gScore
         /\ cameFrom' = (proposal.ToNode :> proposal.FromNode) @@ cameFrom
         /\ IF proposal.ToNode \notin openSetMap
            THEN /\ openSet' = heapPush(openSet,
                        NewItem(proposal.ToNode, proposal.GScore, proposal.FCost))
                 /\ openSetMap' = openSetMap \cup {proposal.ToNode}
            ELSE LET k == PositionOf(openSet, proposal.ToNode)
                     item == openSet[k]
                 IN  /\ openSet' =
                            IF proposal.FCost < item.FCost
                            THEN heapFix([openSet EXCEPT ![k].GScore = proposal.GScore,
                                                         ![k].FCost = proposal.FCost],
                                         item.IndexInQueue)
                            ELSE openSet
                     /\ openSetMap' = openSetMap
    ELSE UNCHANGED <<gScore, cameFrom, openSet, openSetMap>>

\* a worker without its for loop: it returns once its proposal is received
ReceiveProposal_WorkerReturns(proposal) ==
    /\ BagIn(proposal, sending)
    /\ sending' = sending (-) SetToBag({proposal})
    /\ idle' = idle
    /\ Relax(proposal)
    /\ exited' = exited + 1

\* a worker's send meets the orchestrator's receive
ReceiveProposal(proposal) ==
    /\ BagIn(proposal, sending)
    /\ sending' = sending (-) SetToBag({proposal})
    /\ idle' = idle + 1
    /\ Relax(proposal)
    /\ UNCHANGED exited

(***************************************************************************)
(* Search                                                                  *)
(***************************************************************************)
\* the zero Result, as the canceled return has it
NotFoundResult_Zero == ZeroResult

NotFoundResult ==
    [Path |-> <<>>, TotalCost |-> 0, ExpandedNodes |-> expandedNodes, Found |-> FALSE]

FoundResult(item, expanded) ==
    [Path |-> reconstructPath(cameFrom, item.Node, startNode),
     TotalCost |-> item.GScore, ExpandedNodes |-> expanded, Found |-> TRUE]

\* one pass of the orchestrator loop up to its first blocking send
SearchLoop ==
    /\ kind = "Search"
    /\ pc = "loop"
    /\ IF Len(openSet) = 0
       THEN /\ result' = NotFoundResult
            /\ err' = "no path found"
            /\ pc' = "returned"
            /\ UNCHANGED <<openSet, openSetMap, closedSet, expandedNodes,
                           currentItem, neighbors>>
       ELSE LET popped == heapPop(openSet)
                currentNode == popped.item.Node
            IN  /\ openSet' = popped.q
                /\ currentItem' = popped.item
                /\ openSetMap' = openSetMap \ {currentNode}
                /\ IF currentNode \in closedSet
                   THEN /\ pc' = "loop"
                        /\ UNCHANGED <<closedSet, expandedNodes, neighbors, result, err>>
                   ELSE /\ closedSet' = closedSet \cup {currentNode}
                        /\ expandedNodes' = expandedNodes + 1
                        /\ IF currentNode = goalNode
                           THEN /\ result' = FoundResult(popped.item, expandedNodes + 1)
                                /\ err' = "nil"
                                /\ pc' = "returned"
                                /\ UNCHANGED neighbors
                           ELSE /\ neighbors' = Neighbors(scenario, currentNode)
                                /\ pc' = IF Len(Neighbors(scenario, currentNode)) = 0
                                         THEN "loop" ELSE "dispatch"
                                /\ UNCHANGED <<result, err>>
    /\ i' = 0
    /\ UNCHANGED <<scenario, plan, run, prev, cameFrom, gScore, stepCount,
                   done, found, snap, ctxDone, idle, exited, sending>>

SearchDispatch ==
    /\ kind = "Search"
    /\ pc = "dispatch"
    /\ SendTask
    /\ UNCHANGED <<scenario, plan, run, prev, openSet, openSetMap, closedSet,
                   cameFrom, gScore, expandedNodes, stepCount, done, found,
                   currentItem, neighbors, result, snap, err, ctxDone>>

SearchCollect ==
    /\ kind = "Search"
    /\ pc = "collect"
    /\ \E proposal \in BagToSet(sending) : ReceiveProposal(proposal)
    /\ i' = IF i + 1 = Len(neighbors) THEN 0 ELSE i + 1
    /\ pc' = IF i + 1 = Len(neighbors) THEN "loop" ELSE "collect"
    /\ UNCHANGED <<scenario, plan, run, prev, closedSet, expandedNodes,
                   stepCount, done, found, currentItem, neighbors, result,
                   snap, err, ctxDone>>

\* the collect select takes the Done case
SearchCanceled ==
    /\ kind = "Search"
    /\ pc = "collect"
    /\ ctxDone
    /\ result' = ZeroResult
    /\ err' = "context canceled"
    /\ pc' = "returned"
    /\ UNCHANGED <<scenario, plan, run, prev, openSet, openSetMap, closedSet,
                   cameFrom, gScore, expandedNodes, stepCount, done, found,
                   currentItem, neighbors, i, snap, ctxDone, idle, exited,
                   sending>>


(***************************************************************************)
(* Stepper                                                                 *)
(***************************************************************************)
\* a snapshot literal that leaves Current out, as the one of a done Stepper
Snapshot_NoCurrent(current, isDone, isFound, path, stepIndex, open, closed) ==
    [Current |-> ZeroNode, Open |-> open, Closed |-> closed,
     CameFrom |-> cameFrom, Done |-> isDone, Found |-> isFound,
     Path |-> path, StepIndex |-> stepIndex]

\* the snapshot literals of Step; fields left out keep their zero value
Snapshot(current, isDone, isFound, path, stepIndex, open, closed) ==
    [Current |-> current, Open |-> open, Closed |-> closed,
     CameFrom |-> cameFrom, Done |-> isDone, Found |-> isFound,
     Path |-> path, StepIndex |-> stepIndex]

\* Step counting the call before it looks at done
StepDone_Counts ==
    /\ kind = "Stepper"
    /\ pc = "ready"
    /\ done
    /\ stepCount' = stepCount + 1
    /\ snap' = Snapshot(ZeroNode, TRUE, found, <<>>, stepCount + 1, openSetMap, closedSet)
    /\ err' = "nil"
    /\ UNCHANGED <<scenario, plan, run, prev, pc, openSet, openSetMap,
                   closedSet, cameFrom, gScore, expandedNodes,
                   done, found, currentItem, neighbors, i, result, ctxDone,
                   idle, exited, sending>>

\* Step on a Stepper that is done
StepDone ==
    /\ kind = "Stepper"
    /\ pc = "ready"
    /\ done
    /\ snap' = Snapshot(ZeroNode, TRUE, found, <<>>, stepCount, openSetMap, closedSet)
    /\ err' = "nil"
    /\ UNCHANGED <<scenario, plan, run, prev, pc, openSet, openSetMap,
                   closedSet, cameFrom, gScore, expandedNodes, stepCount,
                   done, found, currentItem, neighbors, i, result, ctxDone,
                   idle, exited, sending>>

\* Step on a running Stepper, up to its return or its first blocking send;
\* pc = "step" is the re-entry of the recursive call after a stale pop
StepAdvance ==
    /\ kind = "Stepper"
    /\ pc \in {"ready", "step"}
    /\ ~done
    /\ IF Len(openSet) = 0
       THEN /\ done' = TRUE
            /\ snap' = Snapshot(ZeroNode, TRUE, FALSE, <<>>, stepCount, openSetMap, closedSet)
            /\ err' = "nil"
            /\ pc' = "ready"
            /\ UNCHANGED <<openSet, openSetMap, closedSet, stepCount, found,
                           currentItem, neighbors>>
       ELSE LET popped == heapPop(openSet)
                current == popped.item.Node
            IN  /\ stepCount' = stepCount + 1
                /\ openSet' = popped.q
                /\ currentItem' = popped.item
                /\ openSetMap' = openSetMap \ {current}
                /\ IF current \in closedSet
                   THEN /\ pc' = "step"
                        /\ UNCHANGED <<closedSet, done, found, neighbors, snap, err>>
                   ELSE /\ closedSet' = closedSet \cup {current}
                        /\ IF current = goalNode
                           THEN /\ done' = TRUE
                                /\ found' = TRUE
                                /\ snap' = Snapshot(current, TRUE, TRUE,
                                       reconstructPath(cameFrom, current,
                                           inferStartFromCameFrom(cameFrom, current)),
                                       stepCount + 1, openSetMap \ {current},
                                       closedSet \cup {current})
                                /\ err' = "nil"
                                /\ pc' = "ready"
                                /\ UNCHANGED neighbors
                           ELSE /\ neighbors' = Neighbors(scenario, current)
                                /\ IF Len(Neighbors(scenario, current)) = 0
                                   THEN /\ snap' = Snapshot(current, FALSE, FALSE, <<>>,
                                               stepCount + 1, openSetMap \ {current},
                                               closedSet \cup {current})
                                        /\ err' = "nil"
                                        /\ pc' = "ready"
                                   ELSE /\ pc' = "dispatch"
                                        /\ UNCHANGED <<snap, err>>
                                /\ UNCHANGED <<done, found>>
    /\ i' = 0
    /\ UNCHANGED <<scenario, plan, run, prev, cameFrom, gScore, expandedNodes,
                   result, ctxDone, idle, exited, sending>>

StepDispatch ==
    /\ kind = "Stepper"
    /\ pc = "dispatch"
    /\ SendTask
    /\ UNCHANGED <<scenario, plan, run, prev, openSet, openSetMap, closedSet,
                   cameFrom, gScore, expandedNodes, stepCount, done, found,
                   currentItem, neighbors, result, snap, err, ctxDone>>

\* one receive of the collect loop; after the last one Step returns the
\* running snapshot
StepCollect ==
    /\ kind = "Stepper"
    /\ pc = "collect"
    /\ \E proposal \in BagToSet(sending) : ReceiveProposal(proposal)
    /\ IF i + 1 = Len(neighbors)
       THEN /\ i' = 0
            /\ pc' = "ready"
            /\ snap' = [Snapshot(currentItem.Node, FALSE, FALSE, <<>>, stepCount,
                                 openSetMap', closedSet)
                        EXCEPT !.CameFrom = cameFrom']
            /\ err' = "nil"
       ELSE /\ i' = i + 1
            /\ pc' = "collect"
            /\ UNCHANGED <<snap, err>>
    /\ UNCHANGED <<scenario, plan, run, prev, closedSet, expandedNodes,
                   stepCount, done, found, currentItem, neighbors, result,
                   ctxDone>>

\* the collect select takes the Done case
StepCanceled ==
    /\ kind = "Stepper"
    /\ pc = "collect"
    /\ ctxDone
    /\ done' = TRUE
    /\ snap' = [ZeroSnapshot EXCEPT !.Done = TRUE, !.StepIndex = stepCount]
    /\ err' = "context canceled"
    /\ pc' = "ready"
    /\ UNCHANGED <<scenario, plan, run, prev, openSet, openSetMap, closedSet,
                   cameFrom, gScore, expandedNodes, stepCount, found,
                   currentItem, neighbors, i, result, ctxDone, idle, exited,
                   sending>>

(***************************************************************************)
(* The caller makes its next call once Search has returned a result.  The  *)
(* new call has its own context, channels and workers.                     *)
(***************************************************************************)
NextCall ==
    /\ pc = "returned"
    /\ err # "context canceled"
    /\ run < Len(plan)
    /\ run' = run + 1
    /\ prev' = [result |-> result, err |-> err]
    /\ pc' = Construct(run + 1).pc
    /\ openSet' = Construct(run + 1).openSet
    /\ openSetMap' = Construct(run + 1).openSetMap
    /\ closedSet' = Construct(run + 1).closedSet
    /\ cameFrom' = Construct(run + 1).cameFrom
    /\ gScore' = Construct(run + 1).gScore
    /\ expandedNodes' = 0
    /\ stepCount' = 0
    /\ done' = FALSE
    /\ found' = FALSE
    /\ currentItem' = ZeroItem
    /\ neighbors' = <<>>
    /\ i' = 0
    /\ result' = ZeroResult
    /\ snap' = ZeroSnapshot
    /\ err' = "nil"
    /\ ctxDone' = FALSE
    /\ idle' = Construct(run + 1).idle
    /\ exited' = 0
    /\ sending' = EmptyBag
    /\ UNCHANGED <<scenario, plan>>

Next ==
    \/ SearchLoop
    \/ SearchDispatch
    \/ SearchCollect
    \/ SearchCanceled
    \/ StepDone
    \/ StepAdvance
    \/ StepDispatch
    \/ StepCollect
    \/ StepCanceled
    \/ WorkerExit
    \/ Cancel
    \/ NextCall

Spec == Init /\ [][Next]_vars

\* every goroutine that can run does run, a select with a ready case takes
\* one, and the caller keeps calling Step (and makes its next call); nothing
\* obliges the caller to cancel or to call Step on a Stepper that is done
Fairness ==
    /\ WF_vars(SearchLoop)
    /\ WF_vars(SearchDispatch)
    /\ WF_vars(SearchCollect)
    /\ WF_vars(SearchCanceled)
    /\ WF_vars(StepAdvance)
    /\ WF_vars(StepDispatch)
    /\ WF_vars(StepCollect)
    /\ WF_vars(StepCanceled)
    /\ WF_vars(WorkerExit)
    /\ WF_vars(NextCall)

FairSpec == Spec /\ Fairness

\* the quick start passes context.Background(), which is never canceled;
\* every goroutine that can run does run
GridNext ==
    \/ SearchLoop
    \/ SearchDispatch
    \/ SearchCollect

GridSpec ==
    /\ GridInit
    /\ [][GridNext]_vars
    /\ WF_vars(SearchLoop)
    /\ WF_vars(SearchDispatch)
    /\ WF_vars(SearchCollect)

TypeOK ==
    /\ scenario \in Scenarios \cup {GridScenario}
    /\ plan \in Plans \cup {<<Run("Search", GridWorkers)>>}
    /\ run \in 1..Len(plan)
    /\ pc \in {"loop", "ready", "step", "dispatch", "collect", "returned"}
    /\ openSetMap \subseteq Nodes(scenario)
    /\ closedSet \subseteq Nodes(scenario)
    /\ idle \in 0..NumberOfWorkers
    /\ exited \in 0..NumberOfWorkers
    /\ ctxDone \in BOOLEAN
    /\ done \in BOOLEAN
    /\ found \in BOOLEAN


(***************************************************************************)
(* Reference notions the properties are stated with: brute-force shortest  *)
(* path costs, reachability, admissible and consistent heuristics.         *)
(***************************************************************************)
Unreachable == 0 - 1

Min(S) == CHOOSE x \in S : \A y \in S : x <= y

Edges(sc) ==
    { [from |-> u, to |-> sc.graph[u][k].ID, cost |-> sc.graph[u][k].Cost] :
        u \in Nodes(sc), k \in 1..0 } \cup
    UNION { { [from |-> u, to |-> sc.graph[u][k].ID, cost |-> sc.graph[u][k].Cost] :
                k \in DOMAIN sc.graph[u] } : u \in Nodes(sc) }

\* one round of Bellman-Ford over every edge
RelaxAll(sc, d) ==
    [v \in Nodes(sc) |->
        LET viaEdge == { d[e.from] + e.cost :
                            e \in { e \in Edges(sc) : e.to = v /\ d[e.from] # Unreachable } }
            cands == viaEdge \cup (IF d[v] # Unreachable THEN {d[v]} ELSE {})
        IN  IF cands = {} THEN Unreachable ELSE Min(cands)]

RECURSIVE BellmanFord(_, _, _)
BellmanFord(sc, d, rounds) ==
    IF rounds = 0 THEN d ELSE BellmanFord(sc, RelaxAll(sc, d), rounds - 1)

\* cost of a cheapest path from u to every node, Unreachable where none is
ShortestFrom(sc, u) ==
    BellmanFord(sc, [v \in Nodes(sc) |-> IF v = u THEN 0 ELSE Unreachable],
                Cardinality(Nodes(sc)))

ShortestCost(sc) == ShortestFrom(sc, sc.start)[sc.goal]

PathExists(sc) == ShortestCost(sc) # Unreachable

Reachable(sc) == { v \in Nodes(sc) : ShortestFrom(sc, sc.start)[v] # Unreachable }

Admissible(sc) ==
    \A n \in Nodes(sc) :
        ShortestFrom(sc, n)[sc.goal] # Unreachable => sc.h[n] <= ShortestFrom(sc, n)[sc.goal]

Consistent(sc) ==
    /\ sc.h[sc.goal] = 0
    /\ \A e \in Edges(sc) : sc.h[e.from] <= e.cost + sc.h[e.to]

MaxOutDegree(sc) == CHOOSE m \in 0..Cardinality(Nodes(sc)) + 1 :
    /\ \A u \in Nodes(sc) : Len(sc.graph[u]) <= m
    /\ \E u \in Nodes(sc) : Len(sc.graph[u]) = m

\* a Search call has returned something other than the canceled outcome
SearchReturned == kind = "Search" /\ pc = "returned" /\ err # "context canceled"

(***************************************************************************)
(* C1 - Optimality: with an admissible and consistent heuristic and a path *)
(* from start to goal, every result Search returns has Found = TRUE and    *)
(* TotalCost equal to the brute-force shortest-path cost.                  *)
(***************************************************************************)
C1_Optimality ==
    (SearchReturned /\ Admissible(scenario) /\ Consistent(scenario) /\ PathExists(scenario))
        => (result.Found /\ result.TotalCost = ShortestCost(scenario))


(***************************************************************************)
(* C2 - Worker-count invariance: a Search with one worker and a Search     *)
(* with N workers on the same inputs both complete, with the same Found    *)
(* flag and the same TotalCost.                                            *)
(***************************************************************************)
\* the orchestrator is blocked sending a task and no worker is at its
\* select: each worker is blocked sending a proposal nobody receives, or
\* has exited, so the send never completes
DispatchBlocked == pc = "dispatch" /\ idle = 0

\* no step leads out of a blocked dispatch
BlockedStaysBlocked == [][DispatchBlocked => DispatchBlocked']_vars

TwoSearches == Len(plan) = 2 /\ plan[1].kind = "Search" /\ plan[2].kind = "Search"

C2_WorkerCountInvariance ==
    TwoSearches =>
        /\ ~ctxDone => ~DispatchBlocked
        /\ (run = 2 /\ SearchReturned) =>
                /\ result.Found = prev.result.Found
                /\ result.TotalCost = prev.result.TotalCost

(***************************************************************************)
(* C3 - Path validity: a non-empty Path returned by Search starts at the   *)
(* start node, ends at the goal node, follows edges returned by Neighbors  *)
(* and its edge costs sum to TotalCost.                                    *)
(***************************************************************************)
EdgeCosts(sc, u, v) == { e.cost : e \in { e \in Edges(sc) : e.from = u /\ e.to = v } }

\* the sums of edge costs the node sequence can have (a set: parallel edges)
RECURSIVE PathCosts(_, _)
PathCosts(sc, path) ==
    IF Len(path) <= 1 THEN {0}
    ELSE { c + rest : c \in EdgeCosts(sc, path[1], path[2]),
                      rest \in PathCosts(sc, Tail(path)) }

C3_PathValidity ==
    (SearchReturned /\ result.Path # <<>>) =>
        /\ result.Path[1] = startNode
        /\ result.Path[Len(result.Path)] = goalNode
        /\ \A k \in 1..Len(result.Path) - 1 :
                \E n \in DOMAIN Neighbors(scenario, result.Path[k]) :
                    Neighbors(scenario, result.Path[k])[n].ID = result.Path[k + 1]
        /\ result.TotalCost \in PathCosts(scenario, result.Path)

\* a returned path of at least two edges whose target was improved on the way
C3_Witness ==
    /\ SearchReturned
    /\ Len(result.Path) >= 3
    /\ result.TotalCost > 0
    /\ \E e \in Edges(scenario) :
            e.from = startNode /\ e.to = goalNode /\ e.cost > result.TotalCost

(***************************************************************************)
(* C4 - No-path correctness: when the goal is unreachable, the result      *)
(* Search returns is the not-found outcome (Found = FALSE, empty Path, the *)
(* "no path found" error) and ExpandedNodes is the number of distinct      *)
(* nodes reachable from start.                                             *)
(***************************************************************************)
C4_NoPath ==
    (SearchReturned /\ ~PathExists(scenario)) =>
        /\ ~result.Found
        /\ result.Path = <<>>
        /\ err = "no path found"
        /\ result.ExpandedNodes = Cardinality(Reachable(scenario))

C4_Witness ==
    /\ SearchReturned
    /\ ~PathExists(scenario)
    /\ err = "no path found"
    /\ result.ExpandedNodes >= 3

(***************************************************************************)
(* C5 - Stepper/Search equivalence: stepping to done ends with the found   *)
(* flag, goal g-score and closed-set size that Search returned as Found,   *)
(* TotalCost and ExpandedNodes, whatever the scheduling of either run.     *)
(***************************************************************************)
SearchThenStepper == Len(plan) = 2 /\ plan[2].kind = "Stepper"

C5_StepperSearchEquivalence ==
    (SearchThenStepper /\ run = 2 /\ done /\ ~ctxDone) =>
        /\ found = prev.result.Found
        /\ found => gScore[goalNode] = prev.result.TotalCost
        /\ Cardinality(closedSet) = prev.result.ExpandedNodes

(***************************************************************************)
(* C6 - Terminal idempotence: once Step has returned a snapshot with       *)
(* Done = TRUE, every later Step returns a snapshot equal to it in every   *)
(* field, and StepIndex does not advance.                                  *)
(***************************************************************************)
C6_TerminalIdempotence ==
    [][(kind = "Stepper" /\ done) => snap' = snap]_vars

(***************************************************************************)
(* C7 - Cancellation: when the context is canceled while a Search or Step  *)
(* call is in progress, the call eventually returns, with the canceled     *)
(* outcome.                                                                *)
(***************************************************************************)
InFlight ==
    \/ kind = "Search" /\ pc \in {"loop", "dispatch", "collect"}
    \/ kind = "Stepper" /\ pc \in {"step", "dispatch", "collect"}

C7_Cancellation ==
    [](InFlight /\ ctxDone => <>(~InFlight /\ err = "context canceled"))

(***************************************************************************)
(* C8 - Release stops the pool: after Close, or cancellation of the        *)
(* context, every worker eventually exits.                                 *)
(***************************************************************************)
C8_WorkersExit ==
    [](ctxDone /\ run = Len(plan) => <>(exited = NumberOfWorkers))

(***************************************************************************)
(* C9 - Stepper transition rules: a Step call on a running Stepper does    *)
(* exactly one of (a) frontier empty: Done, not Found, nothing expanded;   *)
(* (b) goal popped: Done, Found, non-empty Path; (c) Done = FALSE with     *)
(* exactly one node, the returned Current, added to the closed set.        *)
(***************************************************************************)
\* a Step call on a running Stepper returns in this step
StepReturns ==
    /\ kind = "Stepper"
    /\ ~done
    /\ pc' = "ready"
    /\ \/ pc = "collect"
       \/ pc \in {"ready", "step"} /\ (done' # done \/ stepCount' # stepCount)

\* the closed set when the call was made: the one of the previous snapshot
EntryClosed == IF pc = "collect" THEN snap.Closed ELSE closedSet

ReturnsExhausted ==
    /\ snap'.Done /\ ~snap'.Found /\ err' = "nil"
    /\ openSet = <<>>
    /\ closedSet' = EntryClosed

ReturnsGoal ==
    /\ snap'.Done /\ snap'.Found /\ err' = "nil"
    /\ snap'.Path # <<>>
    /\ snap'.Current = goalNode
    /\ goalNode \notin EntryClosed
    /\ closedSet' = EntryClosed \cup {goalNode}

ReturnsRunning ==
    /\ ~snap'.Done /\ ~snap'.Found /\ err' = "nil"
    /\ snap'.Current \notin EntryClosed
    /\ closedSet' = EntryClosed \cup {snap'.Current}
    /\ snap'.Closed = closedSet'

ReturnsCanceled ==
    /\ snap'.Done /\ ~snap'.Found /\ err' = "context canceled"
    /\ currentItem.Node \notin EntryClosed
    /\ closedSet' = EntryClosed \cup {currentItem.Node}

\* C9 as stated: every return is one of (a), (b), (c)
C9_TransitionRules_Stated ==
    [][StepReturns => (ReturnsExhausted \/ ReturnsGoal \/ ReturnsRunning)]_vars

\* C9 as amended: a Step call on a running Stepper that returns does exactly
\* one of (a), (b), (c), or (d) takes the Done case of the collect select
\* and returns Done, not Found and the context error, having added exactly
\* one node to the closed set
C9_TransitionRules ==
    [][StepReturns =>
        /\ ReturnsExhausted \/ ReturnsGoal \/ ReturnsRunning \/ ReturnsCanceled
        /\ ~(ReturnsExhausted /\ ReturnsCanceled)]_vars

\* after a call that returned running, a call has returned the canceled
\* outcome with its node closed
C9_Witness ==
    /\ kind = "Stepper"
    /\ pc = "ready"
    /\ done
    /\ err = "context canceled"
    /\ snap.Done /\ ~snap.Found
    /\ stepCount >= 2
    /\ Cardinality(closedSet) = stepCount

(***************************************************************************)
(* C10 - Terminal frame: on a Stepper that is done, Step leaves the        *)
(* frontier, its side index, the closed set, the predecessor map, the      *)
(* g-score map, the step counter and the flags unchanged and sends no task *)
(***************************************************************************)
C10_TerminalFrame ==
    [][(kind = "Stepper" /\ done) =>
        /\ UNCHANGED <<openSet, openSetMap, closedSet, cameFrom, gScore,
                       stepCount, done, found>>
        /\ sending' = sending
        /\ pc' = pc]_vars

\* Step has been called on a Stepper that had found the goal
C10_Witness ==
    /\ kind = "Stepper"
    /\ done /\ found
    /\ snap.Done /\ snap.Found
    /\ snap.Path = <<>>
    /\ snap.StepIndex = stepCount

(***************************************************************************)
(* C11 - Quick-start scenario: on the 5 x 5 grid with walls at (1,1) and   *)
(* (1,2), start (0,0), goal (4,4), the Manhattan heuristic and 4 workers,  *)
(* every execution of Search returns, with Found = TRUE, TotalCost = 8 and *)
(* a Path of 9 nodes that contains no wall cell.                           *)
(***************************************************************************)
GridOutcome ==
    /\ pc = "returned"
    /\ err = "nil"
    /\ result.Found
    /\ result.TotalCost = 8
    /\ Len(result.Path) = 9
    /\ \A k \in 1..Len(result.Path) : result.Path[k] \notin Walls

C11_GridScenario == <>[]GridOutcome

\* Search has returned a path that goes round the walls on the far side,
\* through (0,3), after expanding more nodes than the path has
C11_Witness ==
    /\ scenario = GridScenario
    /\ pc = "returned"
    /\ result.Found
    /\ \E k \in 1..Len(result.Path) : result.Path[k] = Cell(0, 3)
    /\ result.ExpandedNodes > Len(result.Path)

(***************************************************************************)
(* C12 - Round completion: for every pool size, once the orchestrator has  *)
(* started to dispatch the tasks of an expanded node, and as long as the   *)
(* context is not canceled, it eventually has sent every task and received *)
(* one proposal per task, and goes on to its next iteration (Search) or    *)
(* returns (Step); the round never blocks forever.                         *)
(***************************************************************************)
RoundOpen == pc \in {"dispatch", "collect"}

C12_RoundCompletion == [](RoundOpen /\ ~ctxDone => <>(~RoundOpen \/ ctxDone))

(***************************************************************************)
(* C13 - Frontier pop-min: every pop the orchestrator makes (Search's loop *)
(* or Step) returns an item whose f-score is at most the f-score of every  *)
(* item that stays in the frontier.                                        *)
(***************************************************************************)
\* this step pops the frontier
Pops == openSet # <<>> /\ (SearchLoop \/ StepAdvance)

C13_PopMin ==
    [][Pops => \A k \in 1..Len(openSet') : currentItem'.FCost <= openSet'[k].FCost]_vars

(***************************************************************************)
(* C14 - Stored position: each item of the frontier has IndexInQueue equal *)
(* to its index in the heap array.                                         *)
(***************************************************************************)
C14_StoredPosition ==
    \A k \in 1..Len(openSet) : openSet[k].IndexInQueue = k - 1

(***************************************************************************)
(* C15 - Single live frontier item: the frontier heap holds at most one    *)
(* item per node, and the keys of openSetMap are exactly the nodes that    *)
(* have an item in the heap.                                               *)
(***************************************************************************)
FrontierNodes == { openSet[k].Node : k \in 1..Len(openSet) }

C15_SingleFrontierItem ==
    /\ \A k, l \in 1..Len(openSet) : openSet[k].Node = openSet[l].Node => k = l
    /\ openSetMap = FrontierNodes

\* a round has ended in which a node that already had an item in the
\* frontier was proposed again: two proposals from closed nodes were made
\* for it and it is in the frontier, among other items
C15_Witness ==
    /\ pc \in {"loop", "ready"}
    /\ Len(openSet) >= 2
    /\ \E k \in 1..Len(openSet) :
          \E u, v \in closedSet :
            /\ u # v
            /\ EdgeCosts(scenario, u, openSet[k].Node) # {}
            /\ EdgeCosts(scenario, v, openSet[k].Node) # {}

(***************************************************************************)
(* C16 - Closed-set permanence: within a run a node of the closed set      *)
(* stays in it, has no item in the frontier, and keeps its g-score and its *)
(* predecessor; a proposal for a closed node changes nothing of the search *)
(* state.                                                                  *)
(***************************************************************************)
\* this step receives the proposal p
Receives(p) == BagIn(p, sending) /\ sending' = sending (-) SetToBag({p})

C16_ClosedPermanence ==
    [][run' = run =>
        /\ \A p \in BagToSet(sending) :
              (Receives(p) /\ p.ToNode \in closedSet) =>
                  UNCHANGED <<openSet, openSetMap, closedSet, cameFrom, gScore>>
        /\ \A n \in closedSet :
               /\ n \in closedSet'
               /\ n \notin openSetMap'
               /\ n \notin { openSet'[k].Node : k \in 1..Len(openSet') }
               /\ n \in DOMAIN gScore' /\ gScore'[n] = gScore[n]
               /\ (n \in DOMAIN cameFrom') = (n \in DOMAIN cameFrom)
               /\ n \in DOMAIN cameFrom => cameFrom'[n] = cameFrom[n]]_vars

\* a round has ended in which a proposal for a closed node other than the
\* start arrived with a g-score below the stored one
C16_Witness ==
    /\ pc \in {"loop", "ready"}
    /\ sending = EmptyBag
    /\ \E n \in closedSet \ {startNode, currentItem.Node} :
          \E c \in EdgeCosts(scenario, currentItem.Node, n) :
             currentItem.GScore + c < gScore[n]

(***************************************************************************)
(* C17 - Predecessor consistency: every node n with a predecessor p has p  *)
(* in the closed set and gScore[n] = gScore[p] + the cost of an edge from  *)
(* p to n that Neighbors(p) returns.                                       *)
(***************************************************************************)
C17_PredecessorConsistency ==
    \A n \in DOMAIN cameFrom :
        LET p == cameFrom[n]
        IN  /\ p \in closedSet
            /\ n \in DOMAIN gScore
            /\ p \in DOMAIN gScore
            /\ \E c \in EdgeCosts(scenario, p, n) : gScore[n] = gScore[p] + c

\* the predecessor of a node is not the first node that proposed it: the
\* start has an edge to the node, costlier than the stored g-score
C17_Witness ==
    \E n \in DOMAIN cameFrom :
        /\ cameFrom[n] # startNode
        /\ EdgeCosts(scenario, startNode, n) # {}
        /\ \A c \in EdgeCosts(scenario, startNode, n) : c > gScore[n]

(***************************************************************************)
(* C18 - g-score monotonicity: within a run no step increases or removes   *)
(* the stored g-score of a node; an entry changes only to a strictly       *)
(* smaller value, and a received proposal that leaves the g-score map as   *)
(* it is also leaves the predecessor map and the frontier as they are.     *)
(***************************************************************************)
C18_GScoreMonotone ==
    [][run' = run =>
        /\ \A n \in DOMAIN gScore :
              n \in DOMAIN gScore' /\ gScore'[n] <= gScore[n]
        /\ \A p \in BagToSet(sending) :
              Receives(p) =>
                  /\ gScore' # gScore =>
                        /\ gScore'[p.ToNode] = p.GScore
                        /\ p.ToNode \in DOMAIN gScore => p.GScore < gScore[p.ToNode]
                        /\ \A n \in DOMAIN gScore' \ {p.ToNode} :
                              n \in DOMAIN gScore /\ gScore'[n] = gScore[n]
                  /\ gScore' = gScore =>
                        UNCHANGED <<cameFrom, openSet, openSetMap>>]_vars

\* a round has ended with a proposal that equals the stored g-score of a
\* node that is not closed and that had been lowered before: the start has
\* a costlier edge to it
C18_Witness ==
    /\ pc \in {"loop", "ready"}
    /\ sending = EmptyBag
    /\ \E n \in DOMAIN cameFrom \ closedSet :
          /\ cameFrom[n] # currentItem.Node
          /\ \E c \in EdgeCosts(scenario, currentItem.Node, n) :
                currentItem.GScore + c = gScore[n]
          /\ \E c \in EdgeCosts(scenario, startNode, n) : c > gScore[n]

(***************************************************************************)
(* C19 - Stepper path start: in every state of a Stepper the start node    *)
(* has no predecessor, every predecessor chain is acyclic and ends at the  *)
(* start node supplied to NewStepper, and the Path of the goal-found       *)
(* snapshot begins at that node, ends at the goal and is the path          *)
(* reconstructPath builds with the supplied start.                         *)
(***************************************************************************)
\* the node reached from n over at most fuel predecessor links
RECURSIVE ChainEnd(_, _, _)
ChainEnd(came, n, fuel) ==
    IF n \notin DOMAIN came \/ fuel = 0 THEN n
    ELSE ChainEnd(came, came[n], fuel - 1)

C19_StepperPathStart ==
    kind = "Stepper" =>
        /\ startNode \notin DOMAIN cameFrom
        /\ \A n \in DOMAIN cameFrom :
              ChainEnd(cameFrom, n, Cardinality(DOMAIN cameFrom)) = startNode
        /\ (snap.Found /\ snap.Current = goalNode) =>
              /\ snap.Path = reconstructPath(cameFrom, goalNode, startNode)
              /\ snap.Path[1] = startNode
              /\ snap.Path[Len(snap.Path)] = goalNode

\* the goal-found snapshot of a Stepper has a path of at least two edges
\* whose last edge replaced an earlier predecessor of the goal
C19_Witness ==
    /\ kind = "Stepper"
    /\ snap.Found /\ snap.Current = goalNode
    /\ Len(snap.Path) >= 3
    /\ EdgeCosts(scenario, startNode, goalNode) # {}

(***************************************************************************)
(* C20 - Step after cancellation: a Step call made on a running Stepper    *)
(* (done = FALSE) whose context is already canceled returns the            *)
(* cancellation outcome, a non-nil context error, and not a running or     *)
(* found snapshot with a nil error.                                        *)
(***************************************************************************)
\* Step is called with the context canceled and returns without blocking
CanceledCallReturns == StepReturns /\ pc = "ready" /\ ctxDone

C20_StepAfterCancel ==
    [][CanceledCallReturns => err' = "context canceled"]_vars

(***************************************************************************)
(* C21 - Optimality under admissibility alone: with a heuristic that never *)
(* exceeds the true remaining cost to the goal, consistent or not, and a   *)
(* path from start to goal, every result Search returns has Found = TRUE   *)
(* and TotalCost equal to the brute-force shortest-path cost.              *)
(***************************************************************************)
C21_AdmissibleOptimality ==
    (SearchReturned /\ Admissible(scenario) /\ PathExists(scenario))
        => (result.Found /\ result.TotalCost = ShortestCost(scenario))

(***************************************************************************)
(* C22 - No stale pops: the frontier and the closed set are disjoint, the  *)
(* stale-entry branch (Search's continue, Step's recursive call) is never  *)
(* taken, and every pop counts as one expansion: ExpandedNodes in Search   *)
(* and the step counter in the Stepper equal the size of the closed set.   *)
(***************************************************************************)
\* this step pops an item whose node is already closed
StalePop == Pops /\ heapPop(openSet).item.Node \in closedSet

NoStalePop == [][~StalePop]_vars

C22_NoStalePops ==
    /\ FrontierNodes \cap closedSet = {}
    /\ openSetMap \cap closedSet = {}
    /\ pc # "step"
    /\ kind = "Search" => expandedNodes = Cardinality(closedSet)
    /\ kind = "Stepper" => stepCount = Cardinality(closedSet)
    /\ (kind = "Search" /\ pc = "returned" /\ err # "context canceled") =>
            result.ExpandedNodes = Cardinality(closedSet)
    /\ (kind = "Stepper" /\ pc = "ready" /\ stepCount > 0) =>
            snap.StepIndex = Cardinality(closedSet)

\* a node whose frontier item was improved in place has been popped and
\* closed, and at least one more node after it
C22_Witness ==
    /\ pc \in {"loop", "ready", "returned"}
    /\ \E n \in closedSet \ {currentItem.Node} :
          /\ n \in DOMAIN cameFrom
          /\ cameFrom[n] # startNode
          /\ \E c \in EdgeCosts(scenario, startNode, n) : c > gScore[n]

(***************************************************************************)
(* C23 - Frontier item agrees with the g-score map: each frontier item has *)
(* GScore equal to the g-score map entry of its node and FCost equal to    *)
(* that g-score plus the heuristic of the node (the heuristic being a pure *)
(* function of the node).                                                  *)
(***************************************************************************)
C23_ItemAgreesWithMap ==
    \A k \in 1..Len(openSet) :
        LET item == openSet[k]
        IN  /\ item.Node \in DOMAIN gScore
            /\ item.GScore = gScore[item.Node]
            /\ item.FCost = gScore[item.Node] + Heuristic(scenario, item.Node)

\* the frontier holds an item that was tightened in place: its node was
\* first proposed by the start, over an edge costlier than its g-score
C23_Witness ==
    \E k \in 1..Len(openSet) :
        LET n == openSet[k].Node
        IN  /\ n \in DOMAIN cameFrom
            /\ cameFrom[n] # startNode
            /\ \E c \in EdgeCosts(scenario, startNode, n) : c > gScore[n]
            /\ Len(openSet) >= 2

(***************************************************************************)
(* C24 - Termination when the pool covers the out-degree: with at least as *)
(* many workers as the largest neighbor count of a node, fair scheduling   *)
(* and no cancellation, every Search call eventually returns (found or not *)
(* found) and every Stepper whose caller keeps calling Step reaches        *)
(* done = TRUE.                                                            *)
(***************************************************************************)
PoolCoversOutDegree == NumberOfWorkers >= MaxOutDegree(scenario)

Terminated ==
    \/ kind = "Search" /\ pc = "returned" /\ err \in {"nil", "no path found"}
    \/ kind = "Stepper" /\ pc = "ready" /\ done /\ err = "nil"

C24_Termination ==
    [](PoolCoversOutDegree /\ ~ctxDone => <>(Terminated \/ ctxDone))

\* a run with exactly as many workers as the largest out-degree, at least
\* 3, has ended without cancellation after expanding a node of that degree
C24_Witness ==
    /\ Terminated
    /\ ~ctxDone
    /\ NumberOfWorkers = MaxOutDegree(scenario)
    /\ NumberOfWorkers >= 3
    /\ \E n \in closedSet \ {goalNode} : Len(Neighbors(scenario, n)) = NumberOfWorkers

====
